---------------------------- MODULE Spec2Model ----------------------------
(***************************************************************************)
(* Model of src/app/beam/BeamCalc.tsx: the pure function compute (the      *)
(* completeness gate, the unit normalisation and the two closed-form       *)
(* formula sets) and the BeamCalc component's state (the input record held *)
(* by useState, the result held by useMemo) with its three change handlers.*)
(*                                                                         *)
(* Numbers.  A JavaScript number is an IEEE-754 binary64 value.  compute   *)
(* only multiplies, divides and raises to a power, so a finite non-zero    *)
(* value is kept exactly as a sign and a vector of exponents over the      *)
(* primes that occur in the program's constants and in the typed values:   *)
(* multiplying adds the vectors, dividing subtracts them.  On top of the   *)
(* exact value the model keeps binary64's special values (NaN, +-0,        *)
(* +-Infinity) and its range: a product or quotient whose magnitude is at  *)
(* most 2^-1075 becomes a zero, one of at least 2^1024 becomes an          *)
(* infinity.  The magnitude is read off a table of base-10 logarithms in   *)
(* units of 10^-6.  The rounding of the 53-bit significand (a relative     *)
(* error of about 10^-16 per operation) is not modelled.                   *)
(***************************************************************************)
EXTENDS Integers, Sequences, FiniteSets

\* -------------------------------------------------------------------------
\* Exact values: exponent vectors over Primes
\* -------------------------------------------------------------------------

\* The primes of the program's constants and of the values the model types:
\*   0.0254 = 2 * 127 / 10^4,   4.4482216153 = 59 * 641 * 1176187 / 10^10,
\*   0.006894757293168361 = 37 * 347 * 443 * 8377 * 144709 / 10^18,
\*   6.89475729 = 3 * 73 * 3148291 / 10^8,   29000 = 29 * 10^3,
\*   8.333e7 = 13 * 641 * 10^4.
Primes ==
  <<2, 3, 5, 13, 29, 37, 59, 73, 127, 347, 443, 641, 8377, 144709, 1176187,
    3148291>>

\* round(10^6 * log10(p)) for each p of Primes, in the same order.
Log10Primes ==
  <<301030, 477121, 698970, 1113943, 1462398, 1568202, 1770852, 1863323,
    2103804, 2540329, 2646404, 2806858, 3923089, 5160496, 6070476, 6498075>>

PrimeIdx == 1..Len(Primes)

VZero == [i \in PrimeIdx |-> 0]

VAdd(a, b) == [i \in PrimeIdx |-> a[i] + b[i]]

VSub(a, b) == [i \in PrimeIdx |-> a[i] - b[i]]

RECURSIVE VLogFrom(_, _)
VLogFrom(v, i) ==
  IF i > Len(Primes) THEN 0 ELSE v[i] * Log10Primes[i] + VLogFrom(v, i + 1)

\* 10^6 * log10 of the magnitude of the value with exponent vector v.
VLog(v) == VLogFrom(v, 1)

\* The exponent vector of the positive integer n, by trial division.  n must
\* be a product of Primes: any other n runs off the end of Primes, which stops
\* the evaluation with an error rather than give a wrong value.
RECURSIVE FactorFrom(_, _, _)
FactorFrom(n, i, v) ==
  IF n = 1 THEN v
  ELSE IF n % Primes[i] = 0
       THEN FactorFrom(n \div Primes[i], i, [v EXCEPT ![i] = @ + 1])
       ELSE FactorFrom(n, i + 1, v)

Factor(n) == FactorFrom(n, 1, VZero)

\* The exponent vector of 10^k.
VPow10(k) == [i \in PrimeIdx |-> IF Primes[i] \in {2, 5} THEN k ELSE 0]

\* -------------------------------------------------------------------------
\* binary64 values
\* -------------------------------------------------------------------------

\* A value is a record: its kind k (nan, zero, inf or fin), its sign s and,
\* when finite and not zero, its exponent vector v with l = VLog(v).
NaN == [k |-> "nan", s |-> 1, v |-> VZero, l |-> 0]

Zero(s) == [k |-> "zero", s |-> s, v |-> VZero, l |-> 0]

Infinity(s) == [k |-> "inf", s |-> s, v |-> VZero, l |-> 0]

\* 10^6 * log10 of 2^-1075, half the least subnormal: at or below it a result
\* rounds to zero.
UnderflowLog == (0 - 1075) * Log10Primes[1]

\* 10^6 * log10 of 2^1024: from there on a result rounds to an infinity.
OverflowLog == 1024 * Log10Primes[1]

\* The binary64 value of the exact value s * (the value of v), l = VLog(v):
\* its range only.
Fin(s, v, l) ==
  IF l <= UnderflowLog THEN Zero(s)
  ELSE IF l >= OverflowLog THEN Infinity(s)
  ELSE [k |-> "fin", s |-> s, v |-> v, l |-> l]

\* The number the positive integer literal n denotes.
Num(n) == Fin(1, Factor(n), VLog(Factor(n)))

\* JavaScript's a * b.
Mul(a, b) ==
  IF a.k = "nan" \/ b.k = "nan" THEN NaN
  ELSE IF (a.k = "inf" /\ b.k = "zero") \/ (a.k = "zero" /\ b.k = "inf") THEN NaN
  ELSE IF a.k = "inf" \/ b.k = "inf" THEN Infinity(a.s * b.s)
  ELSE IF a.k = "zero" \/ b.k = "zero" THEN Zero(a.s * b.s)
  ELSE Fin(a.s * b.s, VAdd(a.v, b.v), a.l + b.l)

\* JavaScript's a / b: dividing by a zero raises nothing, it gives an infinity
\* (or NaN for 0 / 0).
Div(a, b) ==
  IF a.k = "nan" \/ b.k = "nan" THEN NaN
  ELSE IF (a.k = "inf" /\ b.k = "inf") \/ (a.k = "zero" /\ b.k = "zero") THEN NaN
  ELSE IF a.k = "inf" \/ b.k = "zero" THEN Infinity(a.s * b.s)
  ELSE IF a.k = "zero" \/ b.k = "inf" THEN Zero(a.s * b.s)
  ELSE Fin(a.s * b.s, VSub(a.v, b.v), a.l - b.l)

\* Math.pow(a, n) for an integer n >= 1.
RECURSIVE Pow(_, _)
Pow(a, n) == IF n = 1 THEN a ELSE Mul(a, Pow(a, n - 1))

\* JavaScript's !x for a number x: true of NaN, +0 and -0 only.
Falsy(x) == x.k \in {"nan", "zero"}

\* -------------------------------------------------------------------------
\* parseFloat and the numeric literals
\* -------------------------------------------------------------------------

\* A text is a sequence of one-character strings.
DigitChars == <<"0", "1", "2", "3", "4", "5", "6", "7", "8", "9">>

IsDigit(c) == \E d \in 1..Len(DigitChars) : DigitChars[d] = c

DigitVal(c) == (CHOOSE d \in 1..Len(DigitChars) : DigitChars[d] = c) - 1

\* The first position from i on that holds no digit.
RECURSIVE DigitsEnd(_, _)
DigitsEnd(t, i) ==
  IF i <= Len(t) /\ IsDigit(t[i]) THEN DigitsEnd(t, i + 1) ELSE i

\* The integer written by the digits t[i..j-1] after the digits read so far.
RECURSIVE ToInt(_, _, _, _)
ToInt(t, i, j, acc) ==
  IF i >= j THEN acc ELSE ToInt(t, i + 1, j, 10 * acc + DigitVal(t[i]))

\* JavaScript's parseFloat(t): the longest prefix of t that is a decimal
\* literal (sign, digits, fraction, exponent); NaN when there is none, as for
\* the empty text of a cleared field.
ParseFloat(t) ==
  LET hasSign == Len(t) >= 1 /\ t[1] \in {"-", "+"}
      s       == IF hasSign /\ t[1] = "-" THEN 0 - 1 ELSE 1
      a       == IF hasSign THEN 2 ELSE 1
      b       == DigitsEnd(t, a)
      hasDot  == b <= Len(t) /\ t[b] = "."
      c       == IF hasDot THEN DigitsEnd(t, b + 1) ELSE b
      nFrac   == IF hasDot THEN c - (b + 1) ELSE 0
      hasE    == c <= Len(t) /\ t[c] \in {"e", "E"}
      eSign   == hasE /\ c + 1 <= Len(t) /\ t[c + 1] \in {"-", "+"}
      d       == IF eSign THEN c + 2 ELSE c + 1
      e       == IF hasE THEN DigitsEnd(t, d) ELSE d
      expo    == IF hasE /\ e > d
                 THEN (IF eSign /\ t[c + 1] = "-" THEN 0 - 1 ELSE 1)
                      * ToInt(t, d, e, 0)
                 ELSE 0
      mant    == ToInt(t, b + 1, c, ToInt(t, a, b, 0))
      v       == VAdd(Factor(mant), VPow10(expo - nFrac))
  IN  IF (b - a) + nFrac = 0 THEN NaN
      ELSE IF mant = 0 THEN Zero(s)
      ELSE Fin(s, v, VLog(v))

\* The value of a numeric literal of the source, from its text.
Lit(t) == ParseFloat(t)

\* ------------------ Unit Helpers ------------------
IN_TO_M == Lit(<<"0", ".", "0", "2", "5", "4">>)

MM_TO_M == Lit(<<"0", ".", "0", "0", "1">>)

\* 4.4482216153 = 59 * 641 * 1176187 / 10^10
KIP_TO_KN ==
  Div(Mul(Mul(Num(59), Num(641)), Num(1176187)), Pow(Num(10), 10))

\* 6.89475729 / 1000, with 6.89475729 = 3 * 73 * 3148291 / 10^8
KSI_TO_GPA ==
  Div(Div(Mul(Mul(Num(3), Num(73)), Num(3148291)), Pow(Num(10), 8)),
      Lit(<<"1", "0", "0", "0">>))

\* 0.006894757293168361 = 37 * 347 * 443 * 8377 * 144709 / 10^18
KSI_TO_GPA_CORRECT ==
  Div(Mul(Mul(Mul(Mul(Num(37), Num(347)), Num(443)), Num(8377)), Num(144709)),
      Pow(Num(10), 18))

M_TO_MM == Lit(<<"1", "0", "0", "0">>)

\* const IN4_TO_M4 = Math.pow(IN_TO_M, 4)
IN4_TO_M4 == Pow(IN_TO_M, 4)

\* const MM4_TO_M4 = Math.pow(MM_TO_M, 4)
MM4_TO_M4 == Pow(MM_TO_M, 4)

\* The literal 1e6 of E_GPa * 1e6.
GPA_TO_KN_PER_M2 == Lit(<<"1", "e", "6">>)

\* The integer literals of the formulas: 2, 4, 5, 8, 48, 384.
TWO == Num(2)

FOUR == Num(4)

FIVE == Num(5)

EIGHT == Num(8)

FORTY_EIGHT == Num(48)

THREE_EIGHTY_FOUR == Num(384)

\* ------------------ Types ------------------
Units == {"US", "Metric"}

LoadType == {"UDL", "Point (midspan)"}

\* The numeric fields of Inputs.
NumberFields == {"span", "E", "I", "w", "P"}

\* compute's null: no result.
null == [none |-> TRUE]

\* ------------------ compute ------------------

\* Mutant of Incomplete: tests each field against 0 (x === 0) instead of !x,
\* so a NaN passes.
IncompleteZeroOnly(in) ==
  \/ in.span.k = "zero"
  \/ in.E.k = "zero"
  \/ in.I.k = "zero"
  \/ (IF in.loadType = "UDL" THEN in.w.k = "zero" ELSE in.P.k = "zero")

\* Mutant of Incomplete: requires both magnitudes (!w || !P).
IncompleteBothLoads(in) ==
  Falsy(in.span) \/ Falsy(in.E) \/ Falsy(in.I) \/ Falsy(in.w) \/ Falsy(in.P)

\* The guard of compute's early return:
\*   !span || !E || !I || (loadType === "UDL" ? !w : !P)
Incomplete(in) ==
  \/ Falsy(in.span)
  \/ Falsy(in.E)
  \/ Falsy(in.I)
  \/ (IF in.loadType = "UDL" THEN Falsy(in.w) ELSE Falsy(in.P))

\* Mutant of NormalizeUS: kip/in taken for kN/m without the division by
\* IN_TO_M.
NormalizeUSNoPerLength(in) ==
  [L_m        |-> Mul(in.span, IN_TO_M),
   E_GPa      |-> Mul(in.E, KSI_TO_GPA_CORRECT),
   I_m4       |-> Mul(in.I, IN4_TO_M4),
   w_kN_per_m |-> IF in.loadType = "UDL" THEN Mul(in.w, KIP_TO_KN) ELSE Zero(1),
   P_kN       |-> IF in.loadType = "UDL" THEN Zero(1) ELSE Mul(in.P, KIP_TO_KN)]

\* Mutant of NormalizeUS: the modulus converted with KSI_TO_GPA.
NormalizeUSOtherKsi(in) ==
  [L_m        |-> Mul(in.span, IN_TO_M),
   E_GPa      |-> Mul(in.E, KSI_TO_GPA),
   I_m4       |-> Mul(in.I, IN4_TO_M4),
   w_kN_per_m |-> IF in.loadType = "UDL"
                  THEN Div(Mul(in.w, KIP_TO_KN), IN_TO_M) ELSE Zero(1),
   P_kN       |-> IF in.loadType = "UDL" THEN Zero(1) ELSE Mul(in.P, KIP_TO_KN)]

\* The branch units === "US": L_m, E_GPa, I_m4 and the active load, the other
\* load left at its initial 0.
NormalizeUS(in) ==
  [L_m        |-> Mul(in.span, IN_TO_M),
   E_GPa      |-> Mul(in.E, KSI_TO_GPA_CORRECT),
   I_m4       |-> Mul(in.I, IN4_TO_M4),
   w_kN_per_m |-> IF in.loadType = "UDL"
                  THEN Div(Mul(in.w, KIP_TO_KN), IN_TO_M) ELSE Zero(1),
   P_kN       |-> IF in.loadType = "UDL" THEN Zero(1) ELSE Mul(in.P, KIP_TO_KN)]

\* Mutant of NormalizeMetric: kN/mm multiplied by MM_TO_M instead of divided.
NormalizeMetricTimesMm(in) ==
  [L_m        |-> Mul(in.span, MM_TO_M),
   E_GPa      |-> in.E,
   I_m4       |-> Mul(in.I, MM4_TO_M4),
   w_kN_per_m |-> IF in.loadType = "UDL" THEN Mul(in.w, MM_TO_M) ELSE Zero(1),
   P_kN       |-> IF in.loadType = "UDL" THEN Zero(1) ELSE in.P]

\* The else branch: Metric input in mm, kN and GPa.
NormalizeMetric(in) ==
  [L_m        |-> Mul(in.span, MM_TO_M),
   E_GPa      |-> in.E,
   I_m4       |-> Mul(in.I, MM4_TO_M4),
   w_kN_per_m |-> IF in.loadType = "UDL" THEN Div(in.w, MM_TO_M) ELSE Zero(1),
   P_kN       |-> IF in.loadType = "UDL" THEN Zero(1) ELSE in.P]

Normalize(in) ==
  IF in.units = "US" THEN NormalizeUS(in) ELSE NormalizeMetric(in)

\* const E_kN_per_m2 = E_GPa * 1e6
E_kN_per_m2(n) == Mul(n.E_GPa, GPA_TO_KN_PER_M2)

\* The divisor of the deflection formula: 384 * E_kN_per_m2 * I_m4.
DenominatorUDL(n) == Mul(Mul(THREE_EIGHTY_FOUR, E_kN_per_m2(n)), n.I_m4)

\* The divisor of the deflection formula: 48 * E_kN_per_m2 * I_m4.
DenominatorPoint(n) == Mul(Mul(FORTY_EIGHT, E_kN_per_m2(n)), n.I_m4)

\* Mutant of SolveUDL: the moment divided by 4, the point load's divisor.
SolveUDLMomentOverFour(n) ==
  LET R_kN == Div(Mul(n.w_kN_per_m, n.L_m), TWO)
  IN  [R_kN      |-> R_kN,
       Vmax_kN   |-> R_kN,
       Mmax_kN_m |-> Div(Mul(n.w_kN_per_m, Pow(n.L_m, 2)), FOUR),
       defl_m    |-> Div(Mul(Mul(FIVE, n.w_kN_per_m), Pow(n.L_m, 4)),
                         DenominatorUDL(n))]

\* The branch loadType === "UDL".
SolveUDL(n) ==
  LET R_kN == Div(Mul(n.w_kN_per_m, n.L_m), TWO)
  IN  [R_kN      |-> R_kN,
       Vmax_kN   |-> R_kN,
       Mmax_kN_m |-> Div(Mul(n.w_kN_per_m, Pow(n.L_m, 2)), EIGHT),
       defl_m    |-> Div(Mul(Mul(FIVE, n.w_kN_per_m), Pow(n.L_m, 4)),
                         DenominatorUDL(n))]

\* Mutant of SolvePoint: the moment divided by 8, the UDL's divisor.
SolvePointMomentOverEight(n) ==
  LET R_kN == Div(n.P_kN, TWO)
  IN  [R_kN      |-> R_kN,
       Vmax_kN   |-> R_kN,
       Mmax_kN_m |-> Div(Mul(n.P_kN, n.L_m), EIGHT),
       defl_m    |-> Div(Mul(n.P_kN, Pow(n.L_m, 3)), DenominatorPoint(n))]

\* The else branch: the midspan point load.
SolvePoint(n) ==
  LET R_kN == Div(n.P_kN, TWO)
  IN  [R_kN      |-> R_kN,
       Vmax_kN   |-> R_kN,
       Mmax_kN_m |-> Div(Mul(n.P_kN, n.L_m), FOUR),
       defl_m    |-> Div(Mul(n.P_kN, Pow(n.L_m, 3)), DenominatorPoint(n))]

Solve(loadType, n) ==
  IF loadType = "UDL" THEN SolveUDL(n) ELSE SolvePoint(n)

\* The returned record: kN, kN, kN.m and the deflection in mm.
Display(r) ==
  [R       |-> r.R_kN,
   Vmax    |-> r.Vmax_kN,
   Mmax    |-> r.Mmax_kN_m,
   deflMax |-> Mul(r.defl_m, M_TO_MM)]

compute(in) ==
  IF Incomplete(in) THEN null
  ELSE Display(Solve(in.loadType, Normalize(in)))

\* ------------------ UI ------------------

\* The number of texts the model types into each numeric field.
MaxTyped == 4

\* The texts typed into each field, the field's initial value first.
TypedTexts ==
  [span |-> << <<"1", "2", "0">>, <<"3", "0", "0", "0">>, <<>>, <<"0">>,
               <<"-", "1", "2", "0">> >>,
   E    |-> << <<"2", "9", "0", "0", "0">>, <<"2", "0", "0">>,
               <<"1", "e", "-", "2", "0", "0">>, <<>>, <<"0">> >>,
   I    |-> << <<"2", "0", "0">>, <<"8", ".", "3", "3", "3", "e", "7">>,
               <<"1", "e", "-", "2", "0", "0">>, <<"0">>, <<>> >>,
   w    |-> << <<"0", ".", "0", "0", "1">>, <<"0">>, <<>>,
               <<"-", "0", ".", "0", "0", "1">>, <<"2", ".", "5">> >>,
   P    |-> << <<"1", "0">>, <<>>, <<"0">>, <<"2", ".", "5">>,
               <<"-", "1", "0">> >>]

Typed(name) ==
  {TypedTexts[name][i] : i \in 1..(IF MaxTyped < Len(TypedTexts[name])
                                   THEN MaxTyped ELSE Len(TypedTexts[name]))}

VARIABLES inputs, results

vars == <<inputs, results>>

\* useState's initial record.
InitialInputs ==
  [units    |-> "US",
   span     |-> Lit(<<"1", "2", "0">>),
   E        |-> Lit(<<"2", "9", "0", "0", "0">>),
   I        |-> Lit(<<"2", "0", "0">>),
   loadType |-> "UDL",
   w        |-> Lit(<<"0", ".", "0", "0", "1">>),
   P        |-> Lit(<<"1", "0">>)]

\* Mutant of UseMemo: an empty dependency list, so a cached result is kept.
UseMemoStale(next, cached) == IF cached # null THEN cached ELSE compute(next)

\* useMemo(() => compute(inputs), [inputs]) on the render that follows a
\* setInputs: every setInputs passes a new record, so the memo is recomputed.
UseMemo(next, cached) == compute(next)

\* The number inputs the render shows: span, E, I and the active load only.
ShownNumberFields(in) ==
  {"span", "E", "I"} \cup (IF in.loadType = "UDL" THEN {"w"} ELSE {"P"})

\* { ...inputs, [name]: parseFloat(e.target.value) }
NumberChanged(in, name, text) == [in EXCEPT ![name] = ParseFloat(text)]

\* Mutant of UnitsChanged: the span rescaled to the new unit (in <-> mm).
UnitsChangedRescaling(in, u) ==
  [in EXCEPT !.units = u,
             !.span = IF u = "Metric" THEN Div(Mul(@, IN_TO_M), MM_TO_M)
                      ELSE Div(Mul(@, MM_TO_M), IN_TO_M)]

\* { ...inputs, units: e.target.value }
UnitsChanged(in, u) == [in EXCEPT !.units = u]

\* { ...inputs, loadType: e.target.value }
LoadTypeChanged(in, lt) == [in EXCEPT !.loadType = lt]

Init ==
  /\ inputs = InitialInputs
  /\ results = compute(InitialInputs)

\* onChange of a number input.
OnNumberChange ==
  \E name \in ShownNumberFields(inputs) : \E text \in Typed(name) :
    /\ inputs' = NumberChanged(inputs, name, text)
    /\ results' = UseMemo(inputs', results)

\* onChange of the units select.
OnUnitsChange ==
  \E u \in Units \ {inputs.units} :
    /\ inputs' = UnitsChanged(inputs, u)
    /\ results' = UseMemo(inputs', results)

\* onChange of the load type select.
OnLoadTypeChange ==
  \E lt \in LoadType \ {inputs.loadType} :
    /\ inputs' = LoadTypeChanged(inputs, lt)
    /\ results' = UseMemo(inputs', results)

Next == OnNumberChange \/ OnUnitsChange \/ OnLoadTypeChange

Spec == Init /\ [][Next]_vars

\* The results panel: the four numbers when results is truthy, the prompt
\* "Enter span, E, I, and a load to see results." otherwise.
ResultsPanel(r) == IF r # null THEN "numbers" ELSE "prompt"

\* -------------------------------------------------------------------------
\* Properties
\* -------------------------------------------------------------------------

\* A value that is zero or missing (NaN is what an emptied field parses to).
ZeroOrMissing(x) == x.k = "zero" \/ x.k = "nan"

\* The magnitude of the active load kind, and the other one's field name.
ActiveMagnitude(in) == IF in.loadType = "UDL" THEN in.w ELSE in.P

InactiveField(in) == IF in.loadType = "UDL" THEN "P" ELSE "w"

IsValue(x) == x.k \in {"nan", "zero", "inf", "fin"} /\ x.s \in {0 - 1, 1}

\* C1: compute returns null if and only if span, E, I or the magnitude of the
\* active load kind is zero or missing; otherwise it returns a record holding
\* all four of R, Vmax, Mmax and deflMax.
C1_NullIffZeroOrMissing ==
  /\ (results = null) <=>
       \/ ZeroOrMissing(inputs.span)
       \/ ZeroOrMissing(inputs.E)
       \/ ZeroOrMissing(inputs.I)
       \/ ZeroOrMissing(ActiveMagnitude(inputs))
  /\ results # null =>
       /\ DOMAIN results = {"R", "Vmax", "Mmax", "deflMax"}
       /\ \A f \in DOMAIN results : IsValue(results[f])

\* C1's case: span is 0, everything else is valid, and there is no result.
C1_Witness ==
  /\ inputs.span.k = "zero"
  /\ inputs.E.k = "fin" /\ inputs.I.k = "fin"
  /\ ActiveMagnitude(inputs).k = "fin"
  /\ results = null

\* The values the inactive magnitude is varied over.
InactiveValues(name) ==
  {ParseFloat(TypedTexts[name][i]) : i \in 1..Len(TypedTexts[name])}
    \cup {NaN, Zero(1), Zero(0 - 1)}

\* C2: the inactive load magnitude never influences compute: whatever value
\* it is replaced by, zero and missing included, the outcome is the same.
C2_InactiveMagnitudeIgnored ==
  \A x \in InactiveValues(InactiveField(inputs)) :
    compute([inputs EXCEPT ![InactiveField(inputs)] = x]) = results

\* C2's case: the inactive magnitude is zero or missing and a result is there.
C2_Witness ==
  /\ ZeroOrMissing(inputs[InactiveField(inputs)])
  /\ results # null

\* x is a positive finite value with lo <= 10^6 * log10(x) <= hi.
LogBetween(x, lo, hi) == x.k = "fin" /\ x.s = 1 /\ lo <= x.l /\ x.l <= hi

\* C3 as stated: for the form's initial values R is about 0.6773 kN
\* (0.67725..0.67735) and Mmax about 10.16 kN.m (10.155..10.165).
C3_Original ==
  inputs = InitialInputs =>
    /\ results # null
    /\ LogBetween(results.R, 0 - 169251, 0 - 169187)
    /\ LogBetween(results.Mmax, 1006680, 1007108)

\* C3 amended: for the form's initial values R is about 0.2669 kN
\* (0.26685..0.26695) and Mmax about 0.2034 kN.m (0.20335..0.20345).
C3_InitialScenario ==
  inputs = InitialInputs =>
    /\ results # null
    /\ LogBetween(results.R, 0 - 573733, 0 - 573570)
    /\ LogBetween(results.Mmax, 0 - 691756, 0 - 691542)

\* C3's case: the form holds its initial values and shows a result.
C3_Witness == inputs = InitialInputs /\ ResultsPanel(results) = "numbers"

\* C4: for a complete UDL input, with w, L, E, I the normalized load, span,
\* modulus (kN/m2) and inertia: R = w L / 2, Vmax = R, Mmax = w L^2 / 8 and
\* deflMax = 1000 * 5 w L^4 / (384 E I).
C4_UDLFormulas ==
  (results # null /\ inputs.loadType = "UDL") =>
    LET n == Normalize(inputs)
        w == n.w_kN_per_m
        L == n.L_m
        E == E_kN_per_m2(n)
        I == n.I_m4
    IN  /\ results.R = Div(Mul(w, L), Num(2))
        /\ results.Vmax = results.R
        /\ results.Mmax = Div(Mul(w, Mul(L, L)), Num(8))
        /\ results.deflMax =
             Mul(Num(1000),
                 Div(Mul(Mul(Num(5), w), Mul(Mul(L, L), Mul(L, L))),
                     Mul(Mul(Num(384), E), I)))

\* C4's case: a complete Metric UDL input with a finite deflection.
C4_Witness ==
  /\ inputs.units = "Metric" /\ inputs.loadType = "UDL"
  /\ results # null /\ results.deflMax.k = "fin"

\* The Metric scenario: span = 3000, E = 200, I = 8.333e7, P = 10.
C5_Scenario ==
  /\ inputs.units = "Metric" /\ inputs.loadType = "Point (midspan)"
  /\ inputs.span = Num(3000) /\ inputs.E = Num(200)
  /\ inputs.I = Mul(Num(8333), Num(10000)) /\ inputs.P = Num(10)

\* C5: for a complete midspan point load input, with P, L, E, I the
\* normalized load, span, modulus (kN/m2) and inertia: R = P / 2, Vmax = R,
\* Mmax = P L / 4 and deflMax = 1000 * P L^3 / (48 E I); the Metric scenario
\* gives R = 5 and Mmax = 7.5.
C5_PointFormulas ==
  /\ (results # null /\ inputs.loadType = "Point (midspan)") =>
       LET n == Normalize(inputs)
           P == n.P_kN
           L == n.L_m
           E == E_kN_per_m2(n)
           I == n.I_m4
       IN  /\ results.R = Div(P, Num(2))
           /\ results.Vmax = results.R
           /\ results.Mmax = Div(Mul(P, L), Num(4))
           /\ results.deflMax =
                Mul(Num(1000),
                    Div(Mul(P, Mul(L, Mul(L, L))), Mul(Mul(Num(48), E), I)))
  /\ C5_Scenario =>
       /\ results # null
       /\ results.R = Num(5)
       /\ results.Mmax = Div(Num(75), Num(10))

\* C5's case: the Metric scenario is on the form and shows a result.
C5_Witness == C5_Scenario /\ ResultsPanel(results) = "numbers"

\* The positive finite value with exponent vector v.
Exact(v) == [k |-> "fin", s |-> 1, v |-> v, l |-> VLog(v)]

\* The stated factors: 0.0254, 0.001, 1,000,000 and, as exponent vectors over
\* Primes, 4.4482216153 = 59 * 641 * 1176187 / 10^10 and
\* 0.006894757293168361 = 37 * 347 * 443 * 8377 * 144709 / 10^18.
StatedInch == Lit(<<"0", ".", "0", "2", "5", "4">>)

StatedMilli == Lit(<<"0", ".", "0", "0", "1">>)

StatedMillion == Lit(<<"1", "0", "0", "0", "0", "0", "0">>)

StatedKip ==
  Exact(<<0 - 10, 0, 0 - 10, 0, 0, 0, 1, 0, 0, 0, 0, 1, 0, 0, 1, 0>>)

StatedKsi ==
  Exact(<<0 - 18, 0, 0 - 18, 0, 0, 1, 0, 0, 0, 1, 1, 0, 1, 1, 0, 0>>)

\* C6: normalization uses exactly the stated factors.  US: length = span *
\* 0.0254, modulus (GPa) = E * 0.006894757293168361, inertia = I * 0.0254^4,
\* distributed load = w * 4.4482216153 / 0.0254, point load = P *
\* 4.4482216153.  Metric: length = span * 0.001, modulus (GPa) = E, inertia =
\* I * 0.001^4, distributed load = w / 0.001, point load = P.  In both,
\* modulus (kN/m2) = modulus (GPa) * 1,000,000.
C6_StatedFactors ==
  results # null =>
    LET n == Normalize(inputs)
    IN  /\ inputs.units = "US" =>
             /\ n.L_m = Mul(inputs.span, StatedInch)
             /\ n.E_GPa = Mul(inputs.E, StatedKsi)
             /\ n.I_m4 = Mul(inputs.I, Pow(StatedInch, 4))
             /\ inputs.loadType = "UDL" =>
                  n.w_kN_per_m = Div(Mul(inputs.w, StatedKip), StatedInch)
             /\ inputs.loadType = "Point (midspan)" =>
                  n.P_kN = Mul(inputs.P, StatedKip)
        /\ inputs.units = "Metric" =>
             /\ n.L_m = Mul(inputs.span, StatedMilli)
             /\ n.E_GPa = inputs.E
             /\ n.I_m4 = Mul(inputs.I, Pow(StatedMilli, 4))
             /\ inputs.loadType = "UDL" =>
                  n.w_kN_per_m = Div(inputs.w, StatedMilli)
             /\ inputs.loadType = "Point (midspan)" => n.P_kN = inputs.P
        /\ E_kN_per_m2(n) = Mul(n.E_GPa, StatedMillion)

\* C6's case: a complete US input, whose modulus goes through the ksi factor.
C6_Witness ==
  /\ inputs.units = "US" /\ inputs.loadType = "Point (midspan)"
  /\ results # null

\* The Metric input record of the same beam and load as the US record in:
\* in -> mm, ksi -> GPa, in^4 -> mm^4, kip/in -> kN/mm, kip -> kN.
MetricEquivalent(in) ==
  [units    |-> "Metric",
   span     |-> Div(Mul(in.span, StatedInch), StatedMilli),
   E        |-> Mul(in.E, StatedKsi),
   I        |-> Div(Mul(in.I, Pow(StatedInch, 4)), Pow(StatedMilli, 4)),
   loadType |-> in.loadType,
   w        |-> Mul(Div(Mul(in.w, StatedKip), StatedInch), StatedMilli),
   P        |-> Mul(in.P, StatedKip)]

Denominator(in) ==
  IF in.loadType = "UDL" THEN DenominatorUDL(Normalize(in))
  ELSE DenominatorPoint(Normalize(in))

\* C8: whenever compute does not return null the divisor of the deflection
\* formula is non-zero, and a zero E or I yields null.
C8_DenominatorNonZero ==
  /\ results # null => Denominator(inputs).k # "zero"
  /\ (inputs.E.k = "zero" \/ inputs.I.k = "zero") => results = null

\* C9: the result shown is compute of the current input record, never of an
\* earlier one; the prompt is shown exactly when the current record is
\* incomplete, so a result is back as soon as the missing value is.
C9_ShownIsCurrent ==
  /\ results = compute(inputs)
  /\ ResultsPanel(results) =
       IF \/ ZeroOrMissing(inputs.span)
          \/ ZeroOrMissing(inputs.E)
          \/ ZeroOrMissing(inputs.I)
          \/ ZeroOrMissing(ActiveMagnitude(inputs))
       THEN "prompt" ELSE "numbers"

\* C9's case: the form was edited and shows a result that is not the one of
\* the initial record.
C9_Witness ==
  /\ inputs # InitialInputs
  /\ ResultsPanel(results) = "numbers"
  /\ results # compute(InitialInputs)

\* C10: every form edit leaves all fields but the edited one unchanged: a
\* units change rescales nothing, a load type change keeps w and P, a numeric
\* edit changes the named field only; the hidden magnitude, which has no
\* input on the form, is never changed.
C10_OnlyEditedFieldChanges ==
  [][/\ \A f, g \in DOMAIN inputs :
          (f # g /\ inputs'[f] # inputs[f]) => inputs'[g] = inputs[g]
     /\ inputs'[InactiveField(inputs)] = inputs[InactiveField(inputs)]]_vars

\* C10's case: both selects were changed and every number is still the
\* initial one, the hidden w included.
C10_Witness ==
  /\ inputs.units = "Metric" /\ inputs.loadType = "Point (midspan)"
  /\ \A f \in NumberFields : inputs[f] = InitialInputs[f]

=============================================================================
